---- MODULE Spec2Model ----
(***************************************************************************)
(* expire.sh: certificate and domain-registration expirations of a batch   *)
(* of hostnames (cert.go, whois.go, certexp.go).                           *)
(*                                                                         *)
(* Instants (time.Time) are integers; 0 is the zero time.Time, the value   *)
(* for which IsZero() holds.  Errors are strings, "nil" for a nil error.   *)
(* Hostnames and domains are sequences of labels: <<"a","ex","com">> is    *)
(* a.ex.com and <<>> is the empty string.                                  *)
(***************************************************************************)
EXTENDS Integers, Sequences, FiniteSets, TLC

VARIABLES
    pc,          \* position of the operation under way
    hostnames,   \* getExpirations: the argument
    rv,          \* getExpirations: the result slice
    idx,         \* getExpirations: index of the probe loop (1-based)
    conn,        \* getCertExpiration: the connection of the probe under way
    ctxDone,     \* the request context has been cancelled
    pending,     \* getExpirations: keys of `domains` the range loop has not visited
    probes,      \* history: per index, the results getCertExpiration returned
    calls,       \* history: per domain, the number of getDomainExpiration calls
    lookups,     \* history: per domain, the results getDomainExpiration returned
    chain,       \* getCertExpiration: conn.ConnectionState().PeerCertificates
    certRet,     \* getCertExpiration: the returned pair
    body,        \* getDomainExpiration: the lines of the whois response
    whoisRet,    \* getDomainExpiration: how the call ended
    req,         \* serveExpirations: the request
    expirations, \* serveExpirations: the reports of getExpirations
    now,         \* serveExpirations: time.Now()
    status,      \* serveExpirations: the status code written (200 when none is)
    shown        \* serveExpirations: the reports handed to the encoder

vars == <<pc, hostnames, rv, idx, conn, ctxDone, pending, probes, calls, lookups,
          chain, certRet, body, whoisRet, req, expirations, now, status, shown>>

batchVars == <<hostnames, rv, idx, conn, ctxDone, pending, probes, calls, lookups>>
certVars  == <<chain, certRet>>
whoisVars == <<body, whoisRet>>
serveVars == <<req, expirations, now, status, shown>>

----------------------------------------------------------------------------
(* Bounds *)

MaxHosts == 2
MaxTime  == 2
MaxChain == 3

Time == 0..MaxTime
ZeroTime == 0
Nil == "nil"

IsZero(t) == t = ZeroTime
Before(t, u) == t < u

\* The hostnames a request names.
Hosts == { <<"a","ex","com">>, <<"b","ex","com">>, <<"c","org">>, <<"localhost">> }

SeqsUpTo(S, n) == UNION { [1..k -> S] : k \in 0..n }

----------------------------------------------------------------------------
(* cert.go *)

ErrDial      == "dial error"
ErrHandshake == "handshake error"
ErrWeird     == "weird connection state"

\* One iteration of the loop over the peer certificates.
MinStep(minExpires, notAfter) ==
    IF IsZero(minExpires) \/ Before(notAfter, minExpires) THEN notAfter ELSE minExpires

RECURSIVE MinLoop(_, _, _)
MinLoop(certs, k, minExpires) ==
    IF k > Len(certs) THEN minExpires
    ELSE MinLoop(certs, k + 1, MinStep(minExpires, certs[k]))

\* getCertExpiration once the handshake has succeeded with peer chain `certs`.
AfterHandshake(certs) ==
    IF Len(certs) = 0 THEN [t |-> ZeroTime, err |-> ErrWeird]
    ELSE [t |-> MinLoop(certs, 1, ZeroTime), err |-> Nil]

Chains == SeqsUpTo(Time, MaxChain)

----------------------------------------------------------------------------
(* certexp.go: Expiration and getExpirations *)

ZeroExpiration ==
    [Name |-> <<>>, CertificateExpires |-> ZeroTime, CertificateError |-> Nil,
     Domain |-> <<>>, DomainExpires |-> ZeroTime, DomainError |-> Nil]

\* publicsuffix.PublicSuffix on the rules the model's hostnames meet: the
\* two-label suffix co.uk, and otherwise the last label (a listed TLD, or the
\* default rule "*").  The result is the number of labels of the suffix.
PublicSuffixLen(h) ==
    IF Len(h) >= 2 /\ h[Len(h) - 1] = "co" /\ h[Len(h)] = "uk" THEN 2
    ELSE IF Len(h) >= 1 THEN 1 ELSE 0

\* publicsuffix.EffectiveTLDPlusOne: an error when the name is no longer than
\* its public suffix, else the suffix and the label before it.
EffectiveTLDPlusOne(h) ==
    IF Len(h) <= PublicSuffixLen(h) THEN [domain |-> <<>>, err |-> "cannot derive eTLD+1"]
    ELSE [domain |-> SubSeq(h, Len(h) - PublicSuffixLen(h), Len(h)), err |-> Nil]

\* rv := make([]Expiration, len(hostnames)); rv[i].Name = hostname
MakeRv(hs) == [i \in 1..Len(hs) |-> [ZeroExpiration EXCEPT !.Name = hs[i]]]

\* SetDomains with a fault: a hostname without an apex becomes its own domain.
SetDomainsFallback(r, hs) ==
    [i \in 1..Len(r) |->
        IF EffectiveTLDPlusOne(hs[i]).err # Nil THEN [r[i] EXCEPT !.Domain = hs[i]]
        ELSE [r[i] EXCEPT !.Domain = EffectiveTLDPlusOne(hs[i]).domain]]

\* The loop that fills `domains` and rv[i].Domain.
SetDomains(r, hs) ==
    [i \in 1..Len(r) |->
        IF EffectiveTLDPlusOne(hs[i]).err # Nil THEN r[i]
        ELSE [r[i] EXCEPT !.Domain = EffectiveTLDPlusOne(hs[i]).domain]]

UniqueDomains(hs) ==
    { EffectiveTLDPlusOne(hs[i]).domain :
        i \in { j \in 1..Len(hs) : EffectiveTLDPlusOne(hs[j]).err = Nil } }

\* FanOut with a fault: the inner loop stops at the first report of the domain.
FanOutFirstOnly(r, domain, res) ==
    [i \in 1..Len(r) |->
        IF r[i].Domain = domain /\ \A j \in 1..(i - 1) : r[j].Domain # domain
        THEN [r[i] EXCEPT !.DomainError = res.err, !.DomainExpires = res.t]
        ELSE r[i]]

\* The inner loop of the range over `domains`.
FanOut(r, domain, res) ==
    [i \in 1..Len(r) |->
        IF r[i].Domain = domain
        THEN [r[i] EXCEPT !.DomainError = res.err, !.DomainExpires = res.t]
        ELSE r[i]]

AllDomains == { EffectiveTLDPlusOne(h).domain : h \in Hosts } \ { <<>> }

\* The ways getDomainExpiration returns: a request, fetch or read error; the
\* first date found; no date found.  (It can also panic: see WhoisPanic.)
ErrFetch   == "whois fetch error"
ErrNoDate  == "cannot determine expiration date from whois record"
WhoisReturns ==
    { [t |-> ZeroTime, err |-> ErrFetch], [t |-> ZeroTime, err |-> ErrNoDate] }
    \cup { [t |-> t, err |-> Nil] : t \in Time }

----------------------------------------------------------------------------
(* getExpirations, step by step *)

Idle == /\ chain = <<>> /\ certRet = [t |-> ZeroTime, err |-> Nil]
        /\ body = <<>> /\ whoisRet = "none"
        /\ req = "none" /\ expirations = <<>> /\ now = 0 /\ status = 0 /\ shown = <<>>

Init ==
    /\ hostnames \in SeqsUpTo(Hosts, MaxHosts) \ { <<>> }
    /\ rv = MakeRv(hostnames)
    /\ idx = 1
    /\ pc = "cert"
    /\ conn = "none"
    /\ ctxDone = FALSE
    /\ pending = {}
    /\ probes = [i \in 1..Len(hostnames) |-> <<>>]
    /\ calls = [d \in AllDomains |-> 0]
    /\ lookups = [d \in AllDomains |-> <<>>]
    /\ Idle

\* rv[i].CertificateExpires, rv[i].CertificateError = <res>, and the next i.
ProbeReturns(res) ==
    /\ rv' = [rv EXCEPT ![idx] = [@ EXCEPT !.CertificateExpires = res.t,
                                           !.CertificateError = res.err]]
    /\ probes' = [probes EXCEPT ![idx] = Append(@, res)]
    /\ idx' = idx + 1
    /\ conn' = "none"

\* socket.DialTimeout fails (refused, no such host, or the 3 s timeout).
DialFail ==
    /\ pc = "cert" /\ idx <= Len(hostnames) /\ conn = "none"
    /\ ProbeReturns([t |-> ZeroTime, err |-> ErrDial])
    /\ UNCHANGED <<pc, hostnames, ctxDone, pending, calls, lookups>>
    /\ UNCHANGED <<certVars, whoisVars, serveVars>>

\* socket.DialTimeout connects; the peer then takes part in the handshake or
\* stays silent.
DialOK ==
    /\ pc = "cert" /\ idx <= Len(hostnames) /\ conn = "none"
    /\ conn' \in {"answering", "silent"}
    /\ UNCHANGED <<pc, hostnames, rv, idx, ctxDone, pending, probes, calls, lookups>>
    /\ UNCHANGED <<certVars, whoisVars, serveVars>>

\* conn.Handshake() returns an error.
HandshakeFail ==
    /\ pc = "cert" /\ conn = "answering"
    /\ ProbeReturns([t |-> ZeroTime, err |-> ErrHandshake])
    /\ UNCHANGED <<pc, hostnames, ctxDone, pending, calls, lookups>>
    /\ UNCHANGED <<certVars, whoisVars, serveVars>>

\* conn.Handshake() succeeds.  It has no deadline and takes no context: with a
\* silent peer it does not return, whether or not the context is cancelled.
HandshakeOK ==
    /\ pc = "cert" /\ conn = "answering"
    /\ \E certs \in Chains : ProbeReturns(AfterHandshake(certs))
    /\ UNCHANGED <<pc, hostnames, ctxDone, pending, calls, lookups>>
    /\ UNCHANGED <<certVars, whoisVars, serveVars>>

\* The loop over hostnames that derives the domains.
DeriveDomains ==
    /\ pc = "cert" /\ idx > Len(hostnames)
    /\ rv' = SetDomains(rv, hostnames)
    /\ pending' = UniqueDomains(hostnames)
    /\ pc' = "whois"
    /\ UNCHANGED <<hostnames, idx, conn, ctxDone, probes, calls, lookups>>
    /\ UNCHANGED <<certVars, whoisVars, serveVars>>

\* One iteration of `for domain := range domains` in which
\* getDomainExpiration returns.  A cancelled context fails the fetch.
WhoisReturn ==
    /\ pc = "whois"
    /\ \E domain \in pending, res \in WhoisReturns :
        /\ ctxDone => res.err = ErrFetch
        /\ rv' = FanOut(rv, domain, res)
        /\ pending' = pending \ {domain}
        /\ calls' = [calls EXCEPT ![domain] = @ + 1]
        /\ lookups' = [lookups EXCEPT ![domain] = Append(@, res)]
    /\ UNCHANGED <<pc, hostnames, idx, conn, ctxDone, probes>>
    /\ UNCHANGED <<certVars, whoisVars, serveVars>>

\* One iteration in which getDomainExpiration panics (slice bounds out of
\* range in the offset scan): the panic unwinds getExpirations.
WhoisPanic ==
    /\ pc = "whois" /\ ~ctxDone
    /\ \E domain \in pending :
        /\ calls' = [calls EXCEPT ![domain] = @ + 1]
    /\ pc' = "panicked"
    /\ UNCHANGED <<hostnames, rv, idx, conn, ctxDone, pending, probes, lookups>>
    /\ UNCHANGED <<certVars, whoisVars, serveVars>>

\* return rv
Return ==
    /\ pc = "whois" /\ pending = {}
    /\ pc' = "done"
    /\ UNCHANGED batchVars
    /\ UNCHANGED <<certVars, whoisVars, serveVars>>

\* The caller cancels the request context.
Cancel ==
    /\ pc \in {"cert", "whois"} /\ ~ctxDone
    /\ ctxDone' = TRUE
    /\ UNCHANGED <<pc, hostnames, rv, idx, conn, pending, probes, calls, lookups>>
    /\ UNCHANGED <<certVars, whoisVars, serveVars>>

Next ==
    \/ DialFail \/ DialOK \/ HandshakeFail \/ HandshakeOK
    \/ DeriveDomains \/ WhoisReturn \/ WhoisPanic \/ Return \/ Cancel

Spec == Init /\ [][Next]_vars

\* Every step of getExpirations that can be taken is taken eventually.
FairSpec == Spec /\ WF_vars(Next)

----------------------------------------------------------------------------
(* Properties of getExpirations (Spec, FairSpec) *)

HasApex(h) == EffectiveTLDPlusOne(h).err = Nil
ApexOf(h) == EffectiveTLDPlusOne(h).domain
Indices == 1..Len(hostnames)

\* C1: getExpirations never fails wholesale, and its result has one entry per
\* hostname, entry i named hostnames[i].
C1_NeverFailsWholesale ==
    /\ pc # "panicked"
    /\ Len(rv) = Len(hostnames)
    /\ \A i \in Indices : rv[i].Name = hostnames[i]

\* C2: getDomainExpiration is called at most once per domain and only for the
\* apex of some hostname; when getExpirations returns it has been called once
\* for every such apex; and once a lookup has returned, every report of that
\* domain carries its (DomainExpires, DomainError).
C2_OneLookupPerApex ==
    /\ \A d \in AllDomains :
        /\ calls[d] <= 1
        /\ calls[d] >= 1 => \E i \in Indices : HasApex(hostnames[i]) /\ ApexOf(hostnames[i]) = d
        /\ Len(lookups[d]) = 1 =>
            \A i \in Indices :
                rv[i].Domain = d =>
                    /\ rv[i].DomainExpires = lookups[d][1].t
                    /\ rv[i].DomainError = lookups[d][1].err
    /\ pc = "done" =>
        \A i \in Indices :
            HasApex(hostnames[i]) =>
                /\ rv[i].Domain = ApexOf(hostnames[i])
                /\ calls[ApexOf(hostnames[i])] = 1
                /\ Len(lookups[ApexOf(hostnames[i])]) = 1

\* Two different hostnames of one apex, looked up once, with a date found.
C2_Witness ==
    /\ pc = "done" /\ Len(hostnames) = 2 /\ hostnames[1] # hostnames[2]
    /\ rv[1].Domain = rv[2].Domain /\ rv[1].Domain # <<>>
    /\ calls[rv[1].Domain] = 1
    /\ rv[1].DomainError = Nil /\ rv[1].DomainExpires # ZeroTime
    /\ rv[2].DomainExpires = rv[1].DomainExpires

\* C9: every call of getExpirations ends.
C9_BatchEnds == <>(pc \in {"done", "panicked"})

\* C10: a hostname without an apex domain is probed once and reported with
\* that probe's result, an empty Domain and an unset registration record; no
\* lookup is made for it; every other report carries its own probe's and its
\* own apex's results.
C10_NoApexHost ==
    /\ \A i \in Indices :
        ~HasApex(hostnames[i]) =>
            /\ rv[i].Domain = <<>>
            /\ rv[i].DomainExpires = ZeroTime
            /\ rv[i].DomainError = Nil
    /\ \A d \in AllDomains :
        calls[d] >= 1 => \E i \in Indices : HasApex(hostnames[i]) /\ ApexOf(hostnames[i]) = d
    /\ pc \in {"whois", "done"} =>
        \A i \in Indices :
            /\ Len(probes[i]) = 1
            /\ rv[i].CertificateExpires = probes[i][1].t
            /\ rv[i].CertificateError = probes[i][1].err
    /\ pc = "done" =>
        \A i \in Indices :
            HasApex(hostnames[i]) =>
                /\ Len(lookups[ApexOf(hostnames[i])]) = 1
                /\ rv[i].DomainExpires = lookups[ApexOf(hostnames[i])][1].t
                /\ rv[i].DomainError = lookups[ApexOf(hostnames[i])][1].err

\* A batch of a hostname without an apex, probed with success, and a hostname
\* whose domain lookup found a date.
C10_Witness ==
    /\ pc = "done" /\ Len(hostnames) = 2
    /\ ~HasApex(hostnames[1]) /\ HasApex(hostnames[2])
    /\ rv[1].CertificateError = Nil /\ rv[1].CertificateExpires # ZeroTime
    /\ rv[1].Domain = <<>>
    /\ rv[2].DomainError = Nil /\ rv[2].DomainExpires # ZeroTime

----------------------------------------------------------------------------
(* getCertExpiration after the handshake, step by step (SpecCert) *)

InitCert ==
    /\ chain \in Chains
    /\ certRet = [t |-> ZeroTime, err |-> Nil]
    /\ idx = 1
    /\ pc = "handshaken"
    /\ hostnames = <<>> /\ rv = <<>> /\ conn = "answering" /\ ctxDone = FALSE
    /\ pending = {} /\ probes = <<>> /\ calls = <<>> /\ lookups = <<>>
    /\ body = <<>> /\ whoisRet = "none"
    /\ req = "none" /\ expirations = <<>> /\ now = 0 /\ status = 0 /\ shown = <<>>

\* len(PeerCertificates) == 0: return time.Time{}, err
EmptyChain ==
    /\ pc = "handshaken" /\ Len(chain) = 0
    /\ certRet' = [t |-> ZeroTime, err |-> ErrWeird]
    /\ pc' = "returned"
    /\ UNCHANGED <<chain, batchVars, whoisVars, serveVars>>

\* var minExpires time.Time
EnterLoop ==
    /\ pc = "handshaken" /\ Len(chain) # 0
    /\ pc' = "loop"
    /\ UNCHANGED <<certVars, batchVars, whoisVars, serveVars>>

\* One iteration of the range over PeerCertificates; certRet.t is minExpires.
LoopStep ==
    /\ pc = "loop" /\ idx <= Len(chain)
    /\ certRet' = [certRet EXCEPT !.t = MinStep(@, chain[idx])]
    /\ idx' = idx + 1
    /\ UNCHANGED <<pc, chain, hostnames, rv, conn, ctxDone, pending, probes, calls, lookups>>
    /\ UNCHANGED <<whoisVars, serveVars>>

\* return minExpires, nil
LoopReturn ==
    /\ pc = "loop" /\ idx > Len(chain)
    /\ pc' = "returned"
    /\ UNCHANGED <<certVars, batchVars, whoisVars, serveVars>>

NextCert == EmptyChain \/ EnterLoop \/ LoopStep \/ LoopReturn

SpecCert == InitCert /\ [][NextCert]_vars

MinOf(S) == CHOOSE m \in S : \A x \in S : m <= x

\* C3: after a successful handshake getCertExpiration returns the minimum
\* NotAfter of the chain with a nil error, and an error for an empty chain.
C3_MinimumNotAfter ==
    pc = "returned" =>
        IF Len(chain) = 0 THEN certRet.err # Nil
        ELSE /\ certRet.err = Nil
             /\ certRet.t = MinOf({ chain[k] : k \in 1..Len(chain) })

----------------------------------------------------------------------------
(* whois.go *)

MaxTokens == 3
MaxLines  == 2

\* A line of the response is a sequence of runes, a string a sequence of
\* bytes.  A rune is named by its character, or by its code point when it is
\* not ASCII: U+023A (2 bytes in UTF-8) has the lower case U+2C65 (3 bytes),
\* and U+212A, the Kelvin sign (3 bytes), has the lower case k (1 byte).
Utf8Width(r) ==
    CASE r = "U+023A" -> 2
      [] r = "U+2C65" -> 3
      [] r = "U+212A" -> 3
      [] OTHER -> 1

\* unicode.ToLower on the runes of the model.
ToLowerRune(r) ==
    CASE r = "E" -> "e"
      [] r = "X" -> "x"
      [] r = "P" -> "p"
      [] r = "I" -> "i"
      [] r = "R" -> "r"
      [] r = "S" -> "s"
      [] r = "U+023A" -> "U+2C65"
      [] r = "U+212A" -> "k"
      [] OTHER -> r

\* strings.ToLower
ToLower(runes) == [k \in 1..Len(runes) |-> ToLowerRune(runes[k])]

\* The UTF-8 encoding: byte <<r, k>> is the k-th byte of rune r.
RECURSIVE Utf8(_)
Utf8(runes) ==
    IF runes = <<>> THEN <<>>
    ELSE [k \in 1..Utf8Width(Head(runes)) |-> <<Head(runes), k>>] \o Utf8(Tail(runes))

\* strings.Contains on byte strings.
Contains(s, sub) ==
    \E k \in 0..(Len(s) - Len(sub)) : SubSeq(s, k + 1, k + Len(sub)) = sub

expirationKeywords ==
    << <<"e", "x", "p", "i", "r", "y">>,
       <<"e", "x", "p", "i", "r", "a", "t", "i", "o", "n">>,
       <<"e", "x", "p", "i", "r", "e", "s">>,
       <<"r", "e", "g", "i", "s", "t", "e", "r", "e", "d", " ", "t", "h", "r", "o", "u", "g", "h">>,
       <<"e", "x", "p", "i", "r", "e", "d">>,
       <<"e", "x", "p", "i", "r", "e">>,
       <<"e", "x", "p", "i", "r", "e", "d">>,
       <<"d", "o", "m", "a", "i", "n", "_", "d", "a", "t", "e", "b", "i", "l", "l", "e", "d", "u", "n", "t", "i", "l">>,
       <<"p", "a", "i", "d", "-", "t", "i", "l", "l">>,
       <<"r", "e", "n", "e", "w", "a", "l", " ", "d", "a", "t", "e">>,
       <<"f", "e", "c", "h", "a", " ", "d", "e", " ", "v", "e", "n", "c", "i", "m", "i", "e", "n", "t", "o">> >>

Digit == ("0" :> 0) @@ ("1" :> 1) @@ ("2" :> 2) @@ ("3" :> 3) @@ ("4" :> 4)
         @@ ("5" :> 5) @@ ("6" :> 6) @@ ("7" :> 7) @@ ("8" :> 8) @@ ("9" :> 9)

IsDigitByte(b) == b[1] \in DOMAIN Digit

\* dateparse.ParseAny on the strings of the model: a string of exactly four
\* digits is a year; every other string of the model is no date.
ParseAny(s) ==
    IF Len(s) = 4 /\ \A k \in 1..4 : IsDigitByte(s[k])
    THEN [t |-> 1000 * Digit[s[1][1]] + 100 * Digit[s[2][1]]
                + 10 * Digit[s[3][1]] + Digit[s[4][1]], err |-> Nil]
    ELSE [t |-> ZeroTime, err |-> "could not find date format"]

\* for i := 0; i < len(line); i++ { s.Text()[i:] ... }: `text` is s.Text(),
\* `n` is len(line) of the lower-cased copy.  Slicing a Go string beyond its
\* length panics.
RECURSIVE OffsetScan(_, _, _)
OffsetScan(text, n, i) ==
    IF i >= n THEN [kind |-> "none"]
    ELSE IF i > Len(text) THEN [kind |-> "panic"]
    ELSE IF ParseAny(SubSeq(text, i + 1, Len(text))).err = Nil
         THEN [kind |-> "return", t |-> ParseAny(SubSeq(text, i + 1, Len(text))).t, err |-> Nil]
         ELSE OffsetScan(text, n, i + 1)

\* for _, keyword := range expirationKeywords
RECURSIVE KeywordScan(_, _)
KeywordScan(runes, k) ==
    IF k > Len(expirationKeywords) THEN [kind |-> "none"]
    ELSE IF Contains(Utf8(ToLower(runes)), Utf8(expirationKeywords[k]))
            /\ OffsetScan(Utf8(runes), Len(Utf8(ToLower(runes))), 0).kind # "none"
         THEN OffsetScan(Utf8(runes), Len(Utf8(ToLower(runes))), 0)
         ELSE KeywordScan(runes, k + 1)

\* for s.Scan(), and what follows the loop.
RECURSIVE LineScan(_, _)
LineScan(lines, l) ==
    IF l > Len(lines) THEN [kind |-> "return", t |-> ZeroTime, err |-> ErrNoDate]
    ELSE IF KeywordScan(lines[l], 1).kind # "none" THEN KeywordScan(lines[l], 1)
    ELSE LineScan(lines, l + 1)

\* getDomainExpiration once the response has been fetched.
ScanBody(lines) == LineScan(lines, 1)

\* The pieces lines are made of: a keyword in mixed case, a date, a
\* separator, and the two runes whose lower case has another length.
Tokens ==
    { <<"E","x","p","i","r","e","s">>, <<"2","0","2","5">>, <<":">>,
      <<"U+023A">>, <<"U+212A">> }

RECURSIVE Concat(_)
Concat(ts) == IF ts = <<>> THEN <<>> ELSE Head(ts) \o Concat(Tail(ts))

Lines == { Concat(ts) : ts \in SeqsUpTo(Tokens, MaxTokens) }
Bodies == SeqsUpTo(Lines, MaxLines)

InitWhois ==
    /\ body \in Bodies
    /\ whoisRet = "none"
    /\ pc = "fetched"
    /\ hostnames = <<>> /\ rv = <<>> /\ idx = 1 /\ conn = "none" /\ ctxDone = FALSE
    /\ pending = {} /\ probes = <<>> /\ calls = <<>> /\ lookups = <<>>
    /\ chain = <<>> /\ certRet = [t |-> ZeroTime, err |-> Nil]
    /\ req = "none" /\ expirations = <<>> /\ now = 0 /\ status = 0 /\ shown = <<>>

\* The scan of the body, to the return or the panic.
Scan ==
    /\ pc = "fetched"
    /\ whoisRet' = ScanBody(body)
    /\ pc' = IF ScanBody(body).kind = "panic" THEN "panicked" ELSE "returned"
    /\ UNCHANGED <<body, batchVars, certVars, serveVars>>

NextWhois == Scan

SpecWhois == InitWhois /\ [][NextWhois]_vars

\* A line has a keyword (in any case) and a suffix that is a date.
DatedKeywordLine(runes) ==
    /\ \E k \in 1..Len(expirationKeywords) :
        Contains(Utf8(ToLower(runes)), Utf8(expirationKeywords[k]))
    /\ \E i \in 0..Len(Utf8(runes)) :
        ParseAny(SubSeq(Utf8(runes), i + 1, Len(Utf8(runes)))).err = Nil

\* C4: getDomainExpiration never panics, and for a body without a keyword
\* line that has a date suffix it returns the extraction error and the zero
\* time.
C4_NoDateNoPanic ==
    pc # "fetched" =>
        /\ whoisRet.kind # "panic"
        /\ (\A l \in 1..Len(body) : ~DatedKeywordLine(body[l])) =>
            whoisRet = [kind |-> "return", t |-> ZeroTime, err |-> ErrNoDate]

\* Apart from the panic, C4 holds: a scan that ends without a panic returns
\* the extraction error for a body without a dated keyword line.
WhoisErrorUnlessPanic ==
    (pc = "returned" /\ \A l \in 1..Len(body) : ~DatedKeywordLine(body[l])) =>
        whoisRet = [kind |-> "return", t |-> ZeroTime, err |-> ErrNoDate]

----------------------------------------------------------------------------
(* certexp.go: ServeHTTP and serveExpirations (SpecServe) *)

\* The model's unit of time is 30 days: time.Hour * 24 * 30 is one unit.
DefaultTTL == 1

StatusOK                == 200
StatusBadRequest        == 400
StatusExpectationFailed == 417
StatusBadGateway        == 502

\* The ways getCertExpiration returns.
CertReturns ==
    { [t |-> ZeroTime, err |-> e] : e \in {ErrDial, ErrHandshake, ErrWeird} }
    \cup { AfterHandshake(certs) : certs \in Chains }

\* What getExpirations returns for hostnames hs when the probe of hs[i]
\* returns c[i] and the lookup of domain d returns w[d].
BatchResult(hs, c, w) ==
    [i \in 1..Len(hs) |->
        [Name |-> hs[i],
         CertificateExpires |-> c[i].t,
         CertificateError |-> c[i].err,
         Domain |-> EffectiveTLDPlusOne(hs[i]).domain,
         DomainExpires |->
            IF EffectiveTLDPlusOne(hs[i]).err = Nil
            THEN w[EffectiveTLDPlusOne(hs[i]).domain].t ELSE ZeroTime,
         DomainError |->
            IF EffectiveTLDPlusOne(hs[i]).err = Nil
            THEN w[EffectiveTLDPlusOne(hs[i]).domain].err ELSE Nil]]

\* OK with a fault: an expiration equal to the cutoff counts as too early.
OKNotAfter(e, soon) ==
    IF e.CertificateError # Nil THEN FALSE
    ELSE IF ~(e.CertificateExpires > soon) THEN FALSE
    ELSE IF e.DomainError # Nil THEN FALSE
    ELSE IF ~(e.DomainExpires > soon) THEN FALSE
    ELSE TRUE

\* Expiration.OK
OK(e, soon) ==
    IF e.CertificateError # Nil THEN FALSE
    ELSE IF Before(e.CertificateExpires, soon) THEN FALSE
    ELSE IF e.DomainError # Nil THEN FALSE
    ELSE IF Before(e.DomainExpires, soon) THEN FALSE
    ELSE TRUE

\* ServeHTTP: a path prefix overrides the Accept header.
AcceptOf(r) ==
    CASE r.prefix = "ical" -> "text/calendar"
      [] r.prefix = "json" -> "application/json"
      [] r.prefix = "text" -> "text/plain"
      [] OTHER -> r.accept

\* httputil.NegotiateContentType over the three offers, text/plain by default.
NegotiateContentType(accept) ==
    IF accept \in {"application/json", "text/plain", "text/calendar"}
    THEN accept ELSE "text/plain"

\* A ttl parameter is absent (<<>>) or a number and a unit.
\* time.ParseDuration knows the units up to "h"; "d" and "y" are unknown.
ParseDuration(ttlStr) ==
    IF ttlStr[2] \in {"ns", "us", "ms", "s", "m", "h"}
    THEN [d |-> ttlStr[1], err |-> Nil]
    ELSE [d |-> 0, err |-> "unknown unit"]

\* ttl := time.Hour * 24 * 30, or the parsed parameter
TTLOf(ttlStr) ==
    IF ttlStr = <<>> THEN [d |-> DefaultTTL, err |-> Nil] ELSE ParseDuration(ttlStr)

\* soon := time.Now().Add(-1 * ttl)
Soon(t, ttl) == t - ttl

\* The loop that sets hasError.
HasError(exps) ==
    \E i \in 1..Len(exps) : exps[i].CertificateError # Nil \/ exps[i].DomainError # Nil

\* The loop that sets hasExpirationSoon.
HasExpirationSoon(exps, soon) ==
    \E i \in 1..Len(exps) :
        \/ exps[i].CertificateError = Nil /\ Before(exps[i].CertificateExpires, soon)
        \/ exps[i].DomainError = Nil /\ Before(exps[i].DomainExpires, soon)

\* StatusOf with a fault: the approaching expiration is tested before the error.
StatusOfSoonFirst(contentType, exps, soon) ==
    IF contentType # "text/calendar"
    THEN IF HasExpirationSoon(exps, soon) THEN StatusExpectationFailed
         ELSE IF HasError(exps) THEN StatusBadGateway
         ELSE StatusOK
    ELSE StatusOK

\* The status the response carries: the one WriteHeader is called with, or
\* 200 when it is not called.
StatusOf(contentType, exps, soon) ==
    IF contentType # "text/calendar"
    THEN IF HasError(exps) THEN StatusBadGateway
         ELSE IF HasExpirationSoon(exps, soon) THEN StatusExpectationFailed
         ELSE StatusOK
    ELSE StatusOK

\* The quiet filter.
Filtered(exps, quiet, soon) ==
    IF quiet THEN SelectSeq(exps, LAMBDA e : ~OK(e, soon)) ELSE exps

ServeHosts == { <<"a","ex","com">>, <<"localhost">> }

TtlStrings ==
    { <<>> } \cup { <<n, "h">> : n \in (-1)..MaxTime } \cup { <<1, "y">> }

Requests ==
    [prefix : {"", "ical"}, accept : {"", "application/json", "text/calendar"},
     ttl : TtlStrings, quiet : BOOLEAN]

InitServe ==
    /\ hostnames \in SeqsUpTo(ServeHosts, MaxHosts) \ { <<>> }
    /\ req \in Requests
    /\ pc = "request"
    /\ expirations = <<>> /\ now = 0 /\ status = 0 /\ shown = <<>>
    /\ rv = <<>> /\ idx = 1 /\ conn = "none" /\ ctxDone = FALSE
    /\ pending = {} /\ probes = <<>> /\ calls = <<>> /\ lookups = <<>>
    /\ chain = <<>> /\ certRet = [t |-> ZeroTime, err |-> Nil]
    /\ body = <<>> /\ whoisRet = "none"

\* expirations := getExpirations(r.Context(), hostnames)
GetExpirations ==
    /\ pc = "request"
    /\ \E c \in [1..Len(hostnames) -> CertReturns],
          w \in [UniqueDomains(hostnames) -> WhoisReturns] :
        expirations' = BatchResult(hostnames, c, w)
    /\ pc' = "lookedup"
    /\ UNCHANGED <<req, now, status, shown, batchVars, certVars, whoisVars>>

\* getExpirations panics in a lookup: the handler is unwound, nothing is written.
GetExpirationsPanics ==
    /\ pc = "request" /\ UniqueDomains(hostnames) # {}
    /\ pc' = "panicked"
    /\ UNCHANGED <<serveVars, batchVars, certVars, whoisVars>>

\* The ttl parameter does not parse: 400, whatever the content type.
BadTTL ==
    /\ pc = "lookedup" /\ TTLOf(req.ttl).err # Nil
    /\ status' = StatusBadRequest
    /\ pc' = "responded"
    /\ UNCHANGED <<req, expirations, now, shown, batchVars, certVars, whoisVars>>

\* The rest of serveExpirations.
Respond ==
    /\ pc = "lookedup" /\ TTLOf(req.ttl).err = Nil
    /\ now' \in 1..MaxTime
    /\ status' = StatusOf(NegotiateContentType(AcceptOf(req)), expirations,
                          Soon(now', TTLOf(req.ttl).d))
    /\ shown' = Filtered(expirations, req.quiet, Soon(now', TTLOf(req.ttl).d))
    /\ pc' = "responded"
    /\ UNCHANGED <<req, expirations, batchVars, certVars, whoisVars>>

NextServe == GetExpirations \/ GetExpirationsPanics \/ BadTTL \/ Respond

SpecServe == InitServe /\ [][NextServe]_vars

----------------------------------------------------------------------------
(* Properties of serveExpirations (SpecServe) *)

\* The cutoff of a request whose ttl parses.
Cutoff == now - TTLOf(req.ttl).d
ContentType == NegotiateContentType(AcceptOf(req))
Answered == pc = "responded" /\ TTLOf(req.ttl).err = Nil
Reports == { expirations[i] : i \in 1..Len(expirations) }

\* The claim's reading of "not healthy".
Unhealthy(e, T) ==
    \/ e.CertificateError # Nil
    \/ e.CertificateExpires < T
    \/ e.DomainError # Nil
    \/ e.DomainExpires < T

\* C5: OK(T) is false exactly when an error is set or an expiration is
\* strictly before T; the quiet filter, which uses it, keeps exactly those
\* reports.
C5_OKStrictBefore ==
    /\ \A e \in Reports : \A T \in (-1)..(MaxTime + 1) : OK(e, T) = ~Unhealthy(e, T)
    /\ (Answered /\ req.quiet) =>
        shown = SelectSeq(expirations, LAMBDA e : Unhealthy(e, Cutoff))

\* Under quiet, a report whose two expirations equal the cutoff is left out
\* and one whose certificate expires one unit before the cutoff is kept.
C5_Witness ==
    /\ Answered /\ req.quiet /\ Len(expirations) = 2 /\ Len(shown) = 1
    /\ expirations[1].CertificateError = Nil /\ expirations[1].DomainError = Nil
    /\ expirations[1].CertificateExpires = Cutoff /\ expirations[1].DomainExpires = Cutoff
    /\ expirations[2].CertificateError = Nil /\ expirations[2].DomainError = Nil
    /\ expirations[2].CertificateExpires = Cutoff - 1
    /\ shown[1] = expirations[2]

AnyError ==
    \E e \in Reports : e.CertificateError # Nil \/ e.DomainError # Nil
AnyBeforeCutoff ==
    \E e \in Reports : e.CertificateExpires < Cutoff \/ e.DomainExpires < Cutoff

\* C6: a text or JSON response with a valid ttl is 502 when any report has
\* an error, else 417 when any expiration is strictly before the cutoff,
\* else 200.
C6_Classification ==
    (Answered /\ ContentType # "text/calendar") =>
        status = IF AnyError THEN StatusBadGateway
                 ELSE IF AnyBeforeCutoff THEN StatusExpectationFailed
                 ELSE StatusOK

\* 502 for a batch in which one report has an error and another report has
\* no error and a certificate that expires before the cutoff.
C6_Witness ==
    /\ Answered /\ ContentType = "application/json" /\ status = StatusBadGateway
    /\ Len(expirations) = 2
    /\ expirations[1].CertificateError # Nil
    /\ expirations[2].CertificateError = Nil /\ expirations[2].DomainError = Nil
    /\ expirations[2].CertificateExpires < Cutoff

\* The expirations of a batch: of its certificates and of its domains.
ExpiryTimes ==
    { e.CertificateExpires : e \in Reports }
    \cup { e.DomainExpires : e \in { x \in Reports : x.Domain # <<>> } }

C8_ICalAlways200 ==
    (pc = "responded" /\ ContentType = "text/calendar") => status = StatusOK

----------------------------------------------------------------------------
(* The step-by-step getExpirations and BatchResult agree (Spec) *)

BatchAgrees ==
    pc = "done" =>
        rv = BatchResult(hostnames,
                         [i \in Indices |-> probes[i][1]],
                         [d \in UniqueDomains(hostnames) |-> lookups[d][1]])

====
